---- MODULE Spec2Model ----
(***************************************************************************)
(* Today's Quote scheduler of smriti-backend (app/quotes).                 *)
(*                                                                         *)
(* Time is counted in ticks of five minutes.  The user_daily_quotes        *)
(* collection is a sequence of documents in insertion (natural) order; a   *)
(* document's _id is its position.  An Optional value is <<>> for None and *)
(* <<v>> for a value v.  Each worker serves one cron request at a time:    *)
(* POST /internal/daily-quote-init runs initialize_daily_quotes, POST      *)
(* /internal/daily-quote-push runs send_pending_pushes; two workers give   *)
(* every overlap of two invocations.  A step of a job is the code between  *)
(* two awaits on the store.  settings is the server's configuration; call  *)
(* holds the arguments and the result of the last call of a function or    *)
(* request handler that the specifications of single functions apply.      *)
(***************************************************************************)
EXTENDS Integers, Sequences, FiniteSets, TLC

VARIABLES now, users, workers, store, pc, runNow, todo, pending, idx, cnt, tmp, faults, hist,
          settings, call

vars == <<now, users, workers, store, pc, runNow, todo, pending, idx, cnt, tmp, faults, hist,
         settings, call>>

\* ---------------------------------------------------------------- bounds
\* Last instant of the clock.
MaxTime == 1
\* Length of a calendar day in ticks (288 in reality), shortened.
DayTicks == 26
\* Exceptions the collaborators and the store may raise in one behaviour.
MaxFaults == 1
\* cursor.to_list(length=1000) of get_pending_pushes, scaled down.
PendingLimit == 2
\* Most records the store holds within MaxTime.
MaxRecords == 3
\* Most runs of one character in a text given to the extractor.
MaxSegments == 3
\* Most ticks by which a sunrise day differs from 24 hours.
MaxSkew == 1

\* ------------------------------------------------------ program constants
\* timedelta(hours=1)
HourTicks == 12
\* timedelta(minutes=5)
MinDelayTicks == 1
\* random.randint(5, 15) minutes
FallbackMinTicks == 1
FallbackMaxTicks == 3
\* constants.MAX_HISTORY_LIMIT
MAX_HISTORY_LIMIT == 50
\* constants.MAX_QUOTE_LENGTH, constants.MIN_QUOTE_LENGTH
MAX_QUOTE_LENGTH == 200
MIN_QUOTE_LENGTH == 10

Procs == {"w1", "w2"}
Quotes == {"qa"}

None == <<>>
Some(v) == <<v>>

\* Offset of the user's time zone from UTC, in ticks.
UtcOffset(u) == IF u \in {"u1", "u5"} THEN 0 ELSE 13
\* Local clock time of the sunrise at the user's coordinates on date d.
SunriseLocal(u, d) == IF u = "u3" THEN 2 ELSE 1

\* The deployments: the users collection and the workers serving requests.
Deployments ==
    { [users |-> <<"u1">>, workers |-> {"w1", "w2"}],
      [users |-> <<"u2", "u3", "u4">>, workers |-> {"w1"}] }

Max(a, b) == IF a > b THEN a ELSE b
Min(a, b) == IF a < b THEN a ELSE b

\* ---------------------------------------------------------------- sunrise
\* astral's sunrise of the date, converted to UTC.
SunriseUTC(u, d) == d * DayTicks - UtcOffset(u) + SunriseLocal(u, d)

\* astral's sun(observer, date) raises ValueError: user u5 lives where, up
\* to the date 0, the sun does not reach every elevation sun() asks for.
SunFails(u, d) == u = "u5" /\ d <= 0

\* 6 AM local time of the date, converted to UTC: a quarter into the day.
FallbackSunriseUTC(u, d) == d * DayTicks - UtcOffset(u) + DayTicks \div 4

\* Both sunrises are computed in one try: when sun() raises for either date,
\* both are replaced by 6 AM local time.
get_sunrise_times(u, for_date) ==
    IF SunFails(u, for_date) \/ SunFails(u, for_date + 1)
    THEN [today |-> FallbackSunriseUTC(u, for_date),
          tomorrow |-> FallbackSunriseUTC(u, for_date + 1)]
    ELSE [today |-> SunriseUTC(u, for_date), tomorrow |-> SunriseUTC(u, for_date + 1)]

\* The day changes only after the instant of the sunrise.
get_sunrise_info_for_user_strict(u, reference_time) ==
    LET local_date == (reference_time + UtcOffset(u)) \div DayTicks
        t == get_sunrise_times(u, local_date)
        y == get_sunrise_times(u, local_date - 1)
    IN  IF reference_time > t.today
        THEN [day_key |-> local_date, day_sunrise_utc |-> t.today,
              next_sunrise_utc |-> t.tomorrow]
        ELSE [day_key |-> local_date - 1, day_sunrise_utc |-> y.today,
              next_sunrise_utc |-> t.today]

\* The day is always the one that starts at the sunrise of the local date.
get_sunrise_info_for_user_today_only(u, reference_time) ==
    LET local_date == (reference_time + UtcOffset(u)) \div DayTicks
        t == get_sunrise_times(u, local_date)
    IN  [day_key |-> local_date, day_sunrise_utc |-> t.today,
         next_sunrise_utc |-> t.tomorrow]

get_sunrise_info_for_user(u, reference_time) ==
    LET local_date == (reference_time + UtcOffset(u)) \div DayTicks
        t == get_sunrise_times(u, local_date)
        y == get_sunrise_times(u, local_date - 1)
    IN  IF reference_time >= t.today
        THEN [day_key |-> local_date, day_sunrise_utc |-> t.today,
              next_sunrise_utc |-> t.tomorrow]
        ELSE [day_key |-> local_date - 1, day_sunrise_utc |-> y.today,
              next_sunrise_utc |-> t.today]

\* ------------------------------------------------------------- scheduling
\* The set of values _generate_random_push_time can return (one per draw).
generate_random_push_time(day_sunrise, next_sunrise, now_utc) ==
    LET earliest == Max(day_sunrise + HourTicks, now_utc + MinDelayTicks)
        latest == next_sunrise - HourTicks
    IN  IF earliest >= latest
        THEN {now_utc + m : m \in FallbackMinTicks..FallbackMaxTicks}
        ELSE {earliest + o : o \in 0..(latest - earliest)}

\* ------------------------------------------------------------- repository
RecIds(st) == 1..Len(st)

HasKey(st, user_id, day_key) ==
    \E r \in RecIds(st) : st[r].user_id = user_id /\ st[r].day_key = day_key

\* An existence probe that ignores the day.
check_quote_exists_any_day(st, user_id, day_key) ==
    \E r \in RecIds(st) : st[r].user_id = user_id

\* An existence probe that never finds the record.
check_quote_exists_never(st, user_id, day_key) == FALSE

\* count_documents({user_id, day_key}, limit=1) > 0
check_quote_exists(st, user_id, day_key) == HasKey(st, user_id, day_key)

NewDocument(user_id, day_key, day_sunrise_utc, next_sunrise_utc, scheduled, now_utc) ==
    [user_id |-> user_id, day_key |-> day_key,
     day_sunrise_utc |-> day_sunrise_utc, next_sunrise_utc |-> next_sunrise_utc,
     scheduled_push_time_utc |-> scheduled,
     push_sent |-> FALSE, push_sent_at_utc |-> None,
     quote_text |-> None, source_post_id |-> None,
     created_at_utc |-> now_utc, updated_at_utc |-> now_utc]

\* insert_one without the user_day_unique index.
InsertOneNoIndex(st, doc) == [ok |-> TRUE, st |-> Append(st, doc)]

\* insert_one replaced by an upsert on (user_id, day_key).
InsertOneUpsert(st, doc) ==
    IF HasKey(st, doc.user_id, doc.day_key)
    THEN [ok |-> TRUE,
          st |-> [r \in RecIds(st) |->
                    IF st[r].user_id = doc.user_id /\ st[r].day_key = doc.day_key
                    THEN doc ELSE st[r]]]
    ELSE [ok |-> TRUE, st |-> Append(st, doc)]

\* insert_one under the unique index user_day_unique on (user_id, day_key):
\* ok = FALSE is DuplicateKeyError.
InsertOne(st, doc) ==
    IF HasKey(st, doc.user_id, doc.day_key)
    THEN [ok |-> FALSE, st |-> st]
    ELSE [ok |-> TRUE, st |-> Append(st, doc)]

create_daily_quote_record(st, user_id, day_key, sunrise, next, scheduled, now_utc) ==
    InsertOne(st, NewDocument(user_id, day_key, sunrise, next, scheduled, now_utc))

\* The update leaves a record without a quote pending.
mark_quote_sent_only_with_quote(st, record_id, quote_text, source_post_id, now_utc) ==
    IF record_id \notin RecIds(st) \/ quote_text = None
    THEN [applied |-> FALSE, st |-> st]
    ELSE LET doc == [st[record_id] EXCEPT !.push_sent = TRUE,
                                          !.push_sent_at_utc = Some(now_utc),
                                          !.quote_text = quote_text,
                                          !.source_post_id = source_post_id,
                                          !.updated_at_utc = now_utc]
         IN  [applied |-> doc # st[record_id],
              st |-> [st EXCEPT ![record_id] = doc]]

\* The update without push_sent in its $set.
mark_quote_sent_keeps_pending(st, record_id, quote_text, source_post_id, now_utc) ==
    IF record_id \notin RecIds(st)
    THEN [applied |-> FALSE, st |-> st]
    ELSE LET doc == [st[record_id] EXCEPT !.push_sent_at_utc = Some(now_utc),
                                          !.quote_text = quote_text,
                                          !.source_post_id = source_post_id,
                                          !.updated_at_utc = now_utc]
         IN  [applied |-> doc # st[record_id],
              st |-> [st EXCEPT ![record_id] = doc]]

\* The update without push_sent_at_utc in its $set.
mark_quote_sent_no_timestamp(st, record_id, quote_text, source_post_id, now_utc) ==
    IF record_id \notin RecIds(st)
    THEN [applied |-> FALSE, st |-> st]
    ELSE LET doc == [st[record_id] EXCEPT !.push_sent = TRUE,
                                          !.quote_text = quote_text,
                                          !.source_post_id = source_post_id,
                                          !.updated_at_utc = now_utc]
         IN  [applied |-> doc # st[record_id],
              st |-> [st EXCEPT ![record_id] = doc]]

\* update_one({"_id": record_id}, {"$set": ...}): the filter is the _id alone.
\* applied is result.modified_count > 0: the document matched and changed.
mark_quote_sent(st, record_id, quote_text, source_post_id, now_utc) ==
    IF record_id \notin RecIds(st)
    THEN [applied |-> FALSE, st |-> st]
    ELSE LET doc == [st[record_id] EXCEPT !.push_sent = TRUE,
                                          !.push_sent_at_utc = Some(now_utc),
                                          !.quote_text = quote_text,
                                          !.source_post_id = source_post_id,
                                          !.updated_at_utc = now_utc]
         IN  [applied |-> doc # st[record_id],
              st |-> [st EXCEPT ![record_id] = doc]]

\* The _ids of the collection in natural order.
IdSeq(st) == [r \in RecIds(st) |-> r]

Take(s, n) == SubSeq(s, 1, Min(n, Len(s)))

\* find without the scheduled_push_time_utc condition.
get_pending_pushes_no_time(st, before_time) ==
    Take(SelectSeq(IdSeq(st), LAMBDA r : ~st[r].push_sent),
         PendingLimit)

\* The limit applied to the collection before the query instead of after it.
get_pending_pushes_limit_first(st, before_time) ==
    SelectSeq(Take(IdSeq(st), PendingLimit),
              LAMBDA r : ~st[r].push_sent /\ st[r].scheduled_push_time_utc <= before_time)

\* find without the push_sent condition.
get_pending_pushes_any_sent(st, before_time) ==
    Take(SelectSeq(IdSeq(st), LAMBDA r : st[r].scheduled_push_time_utc <= before_time),
         PendingLimit)

\* find({push_sent: False, scheduled_push_time_utc: {$lte: before_time}})
\* followed by to_list(length=1000).
get_pending_pushes(st, before_time) ==
    Take(SelectSeq(IdSeq(st), LAMBDA r : ~st[r].push_sent /\ st[r].scheduled_push_time_utc <= before_time),
         PendingLimit)

\* The _ids of ids ordered by day_key descending (cursor.sort("day_key", -1));
\* documents with the same day_key stay in natural order.
RECURSIVE SortByDayKeyDesc(_, _)
SortByDayKeyDesc(st, ids) ==
    IF ids = {} THEN <<>>
    ELSE LET top == CHOOSE r \in ids :
                       \A o \in ids : \/ st[o].day_key < st[r].day_key
                                      \/ st[o].day_key = st[r].day_key /\ o >= r
         IN  <<top>> \o SortByDayKeyDesc(st, ids \ {top})

\* The sequence s without its first n elements (cursor.skip(n)).
Drop(s, n) == SubSeq(s, n + 1, Len(s))

\* The history query without the quote_text condition.
get_quote_history_no_text_filter(st, user_id, skip, limit) ==
    LET matching == {r \in RecIds(st) : st[r].user_id = user_id /\ st[r].push_sent}
    IN  [documents |-> Take(Drop(SortByDayKeyDesc(st, matching), skip),
                            Min(limit, MAX_HISTORY_LIMIT)),
         total |-> Cardinality(matching)]

\* find({user_id, push_sent: True, quote_text: {$ne: None}})
\*   .sort("day_key", -1).skip(skip).limit(min(limit, MAX_HISTORY_LIMIT)),
\* and count_documents of the same query.
get_quote_history(st, user_id, skip, limit) ==
    LET matching == {r \in RecIds(st) : /\ st[r].user_id = user_id
                                        /\ st[r].push_sent
                                        /\ st[r].quote_text # None}
    IN  [documents |-> Take(Drop(SortByDayKeyDesc(st, matching), skip),
                            Min(limit, MAX_HISTORY_LIMIT)),
         total |-> Cardinality(matching)]

\* find_one({user_id, day_key}): the first match in natural order, or None.
get_quote_for_user_day(st, user_id, day_key) ==
    LET matching == {r \in RecIds(st) : st[r].user_id = user_id /\ st[r].day_key = day_key}
    IN  IF matching = {} THEN None
        ELSE Some(CHOOSE r \in matching : \A o \in matching : r <= o)

\* ----------------------------------------------------------------- queries
\* The status handler without the look at quote_text.
get_today_quote_no_text_check(st, user_id, now_utc) ==
    LET day_key == get_sunrise_info_for_user(user_id, now_utc).day_key
        record == get_quote_for_user_day(st, user_id, day_key)
    IN  IF record = None \/ ~st[record[1]].push_sent
        THEN [has_quote |-> FALSE, status |-> "pending", quote |-> None]
        ELSE [has_quote |-> TRUE, status |-> "delivered",
              quote |-> Some([text |-> IF st[record[1]].quote_text = None THEN ""
                                       ELSE st[record[1]].quote_text[1],
                              post_id |-> st[record[1]].source_post_id,
                              day_key |-> day_key,
                              received_at |-> st[record[1]].push_sent_at_utc])]

\* GET /quotes/today: the user's current day from the clock, the record of
\* that day, and the response built from it.
get_today_quote(st, user_id, now_utc) ==
    LET day_key == get_sunrise_info_for_user(user_id, now_utc).day_key
        record == get_quote_for_user_day(st, user_id, day_key)
    IN  IF record = None
        THEN [has_quote |-> FALSE, status |-> "pending", quote |-> None]
        ELSE IF ~st[record[1]].push_sent
        THEN [has_quote |-> FALSE, status |-> "pending", quote |-> None]
        ELSE IF st[record[1]].quote_text = None
        THEN [has_quote |-> FALSE, status |-> "unavailable", quote |-> None]
        ELSE [has_quote |-> TRUE, status |-> "delivered",
              quote |-> Some([text |-> st[record[1]].quote_text[1],
                              post_id |-> st[record[1]].source_post_id,
                              day_key |-> day_key,
                              received_at |-> st[record[1]].push_sent_at_utc])]

\* has_more taken from a full page instead of from the total.
get_quote_history_response_full_page(st, user_id, skip, limit) ==
    LET page == get_quote_history(st, user_id, skip, limit)
    IN  [quotes |-> page.documents, total |-> page.total, skip |-> skip,
         limit |-> limit, has_more |-> Len(page.documents) = limit]

\* GET /quotes/history: the page of the repository and the pagination flags.
get_quote_history_response(st, user_id, skip, limit) ==
    LET page == get_quote_history(st, user_id, skip, limit)
    IN  [quotes |-> page.documents, total |-> page.total, skip |-> skip,
         limit |-> limit, has_more |-> (skip + Len(page.documents)) < page.total]

\* ------------------------------------------------------------------ state
ZeroCnt == [initialized |-> 0, skipped |-> 0, errors |-> 0,
            processed |-> 0, sent |-> 0, no_quote |-> 0, no_tokens |-> 0]
NoTmp == [quote |-> None, tokens |-> FALSE]
\* No single call is recorded.
NoCall == [fn |-> "none"]
\* The shared secret of the cron endpoints (settings.CRON_SECRET) is set.
Configured == [CRON_SECRET |-> Some("s1")]
PostOf(q) == "post_of_" \o q

\* Everything but the deployment, after startup: an empty collection and idle
\* workers.
InitRest ==
    /\ now = 0
    /\ store = <<>>
    /\ pc = [p \in Procs |-> "idle"]
    /\ runNow = [p \in Procs |-> 0]
    /\ todo = [p \in Procs |-> <<>>]
    /\ pending = [p \in Procs |-> <<>>]
    /\ idx = [p \in Procs |-> 0]
    /\ cnt = [p \in Procs |-> ZeroCnt]
    /\ tmp = [p \in Procs |-> NoTmp]
    /\ faults = 0
    /\ hist = <<>>

Init ==
    /\ \E d \in Deployments : users = d.users /\ workers = d.workers
    /\ InitRest
    /\ settings = Configured
    /\ call = NoCall

\* The deployment with one worker and three users.
LiveInit ==
    /\ users = <<"u2", "u3", "u4">>
    /\ workers = {"w1"}
    /\ InitRest
    /\ settings = Configured
    /\ call = NoCall

\* The clock advances.
Tick ==
    /\ now < MaxTime
    /\ now' = now + 1
    /\ UNCHANGED <<users, workers, store, pc, runNow, todo, pending, idx, cnt, tmp, faults, hist, settings, call>>

\* End of one iteration of a job's for loop: next item, or return.
NextItem(p, items, head, done) ==
    /\ idx' = [idx EXCEPT ![p] = @ + 1]
    /\ pc' = [pc EXCEPT ![p] = IF idx[p] + 1 > Len(items) THEN done ELSE head]

\* ------------------------------------------------- initialize_daily_quotes
\* now_utc = datetime.now(utc); users = db.users.find(...).to_list(10000).
StartInit(p) ==
    /\ p \in workers
    /\ pc[p] = "idle"
    /\ runNow' = [runNow EXCEPT ![p] = now]
    /\ todo' = [todo EXCEPT ![p] = users]
    /\ idx' = [idx EXCEPT ![p] = 1]
    /\ cnt' = [cnt EXCEPT ![p] = ZeroCnt]
    /\ tmp' = [tmp EXCEPT ![p] = NoTmp]
    /\ pc' = [pc EXCEPT ![p] = "init_check"]
    /\ UNCHANGED <<now, users, workers, store, pending, faults, hist, settings, call>>

\* get_sunrise_info_for_user, then await check_quote_exists.
InitCheck(p) ==
    /\ pc[p] = "init_check"
    /\ LET u == todo[p][idx[p]]
           info == get_sunrise_info_for_user(u, runNow[p])
       IN  IF check_quote_exists(store, u, info.day_key)
           THEN /\ cnt' = [cnt EXCEPT ![p].skipped = @ + 1]
                /\ NextItem(p, todo[p], "init_check", "init_done")
           ELSE /\ pc' = [pc EXCEPT ![p] = "init_create"]
                /\ UNCHANGED <<cnt, idx>>
    /\ UNCHANGED <<now, users, workers, store, runNow, todo, pending, tmp, faults, hist, settings, call>>

\* The exception of the sunrise computation or of check_quote_exists is not
\* caught: the request ends with it, the remaining users untouched.
InitCheckRaise_propagates(p) ==
    /\ pc[p] = "init_check"
    /\ faults < MaxFaults
    /\ faults' = faults + 1
    /\ pc' = [pc EXCEPT ![p] = "init_done"]
    /\ UNCHANGED <<now, users, workers, store, runNow, todo, pending, idx, cnt, tmp, hist, settings, call>>

\* The sunrise computation or check_quote_exists raises: except Exception.
InitCheckRaise(p) ==
    /\ pc[p] = "init_check"
    /\ faults < MaxFaults
    /\ faults' = faults + 1
    /\ cnt' = [cnt EXCEPT ![p].errors = @ + 1]
    /\ NextItem(p, todo[p], "init_check", "init_done")
    /\ UNCHANGED <<now, users, workers, store, runNow, todo, pending, tmp, hist, settings, call>>

\* _generate_random_push_time, then await create_daily_quote_record; a
\* DuplicateKeyError is caught by except Exception.
InitCreate(p) ==
    /\ pc[p] = "init_create"
    /\ LET u == todo[p][idx[p]]
           info == get_sunrise_info_for_user(u, runNow[p])
       IN  \E scheduled_time \in generate_random_push_time(
                   info.day_sunrise_utc, info.next_sunrise_utc, runNow[p]) :
             LET res == create_daily_quote_record(store, u, info.day_key,
                            info.day_sunrise_utc, info.next_sunrise_utc,
                            scheduled_time, now)
             IN  /\ store' = res.st
                 /\ hist' = IF Len(res.st) > Len(store)
                            THEN Append(hist, [marks |-> 0, pushes |-> 0])
                            ELSE hist
                 /\ cnt' = IF res.ok
                           THEN [cnt EXCEPT ![p].initialized = @ + 1]
                           ELSE [cnt EXCEPT ![p].errors = @ + 1]
    /\ NextItem(p, todo[p], "init_check", "init_done")
    /\ UNCHANGED <<now, users, workers, runNow, todo, pending, tmp, faults, settings, call>>

\* create_daily_quote_record raises something other than DuplicateKeyError.
InitCreateRaise(p) ==
    /\ pc[p] = "init_create"
    /\ faults < MaxFaults
    /\ faults' = faults + 1
    /\ cnt' = [cnt EXCEPT ![p].errors = @ + 1]
    /\ NextItem(p, todo[p], "init_check", "init_done")
    /\ UNCHANGED <<now, users, workers, store, runNow, todo, pending, tmp, hist, settings, call>>

\* ------------------------------------------------------ send_pending_pushes
\* now_utc = datetime.now(utc); pending_records = get_pending_pushes(now_utc).
StartPush(p) ==
    /\ p \in workers
    /\ pc[p] = "idle"
    /\ runNow' = [runNow EXCEPT ![p] = now]
    /\ LET pending_records == get_pending_pushes(store, now)
       IN  /\ pending' = [pending EXCEPT ![p] = pending_records]
           /\ pc' = [pc EXCEPT ![p] = IF pending_records = <<>> THEN "push_done" ELSE "push_fetch"]
    /\ idx' = [idx EXCEPT ![p] = 1]
    /\ cnt' = [cnt EXCEPT ![p] = ZeroCnt]
    /\ tmp' = [tmp EXCEPT ![p] = NoTmp]
    /\ UNCHANGED <<now, users, workers, store, todo, faults, hist, settings, call>>

\* processed_count += 1; await pick_random_quote(); with a quote, await
\* notification_repo.get_tokens_for_user(user_id).
PushFetch(p) ==
    /\ pc[p] = "push_fetch"
    /\ cnt' = [cnt EXCEPT ![p].processed = @ + 1]
    /\ \/ tmp' = [tmp EXCEPT ![p] = [quote |-> None, tokens |-> FALSE]]
       \/ \E q \in Quotes, tokens \in BOOLEAN :
            tmp' = [tmp EXCEPT ![p] = [quote |-> Some(q), tokens |-> tokens]]
    /\ pc' = [pc EXCEPT ![p] = "push_mark"]
    /\ UNCHANGED <<now, users, workers, store, runNow, todo, pending, idx, faults, hist, settings, call>>

\* The exception of pick_random_quote or get_tokens_for_user is not caught:
\* the request ends with it, the remaining records untouched.
PushFetchRaise_propagates(p) ==
    /\ pc[p] = "push_fetch"
    /\ faults < MaxFaults
    /\ faults' = faults + 1
    /\ cnt' = [cnt EXCEPT ![p].processed = @ + 1]
    /\ pc' = [pc EXCEPT ![p] = "push_done"]
    /\ UNCHANGED <<now, users, workers, store, runNow, todo, pending, idx, tmp, hist, settings, call>>

\* pick_random_quote or get_tokens_for_user raises: except Exception.
PushFetchRaise(p) ==
    /\ pc[p] = "push_fetch"
    /\ faults < MaxFaults
    /\ faults' = faults + 1
    /\ cnt' = [cnt EXCEPT ![p].processed = @ + 1, ![p].errors = @ + 1]
    /\ NextItem(p, pending[p], "push_fetch", "push_done")
    /\ UNCHANGED <<now, users, workers, store, runNow, todo, pending, tmp, hist, settings, call>>

\* await mark_quote_sent (its result is not looked at), then the counters
\* and, with tokens, _send_quote_push, which returns whether a push succeeded.
PushMark(p) ==
    /\ pc[p] = "push_mark"
    /\ LET record_id == pending[p][idx[p]]
           q == tmp[p].quote
           post == IF q = None THEN None ELSE Some(PostOf(q[1]))
           m == mark_quote_sent(store, record_id, q, post, now)
           push == q # None /\ tmp[p].tokens
       IN  /\ store' = m.st
           /\ \E push_sent \in BOOLEAN :
                /\ ~push => push_sent
                /\ cnt' = IF q = None THEN [cnt EXCEPT ![p].no_quote = @ + 1]
                          ELSE IF ~tmp[p].tokens THEN [cnt EXCEPT ![p].no_tokens = @ + 1]
                          ELSE IF push_sent THEN [cnt EXCEPT ![p].sent = @ + 1]
                          ELSE cnt
           /\ hist' = [hist EXCEPT ![record_id] =
                         [marks |-> @.marks + (IF m.applied THEN 1 ELSE 0),
                          pushes |-> @.pushes + (IF push THEN 1 ELSE 0)]]
    /\ tmp' = [tmp EXCEPT ![p] = NoTmp]
    /\ NextItem(p, pending[p], "push_fetch", "push_done")
    /\ UNCHANGED <<now, users, workers, runNow, todo, pending, faults, settings, call>>

\* mark_quote_sent raises: except Exception.
PushMarkRaise(p) ==
    /\ pc[p] = "push_mark"
    /\ faults < MaxFaults
    /\ faults' = faults + 1
    /\ cnt' = [cnt EXCEPT ![p].errors = @ + 1]
    /\ tmp' = [tmp EXCEPT ![p] = NoTmp]
    /\ NextItem(p, pending[p], "push_fetch", "push_done")
    /\ UNCHANGED <<now, users, workers, store, runNow, todo, pending, hist, settings, call>>

\* The job returns its response (CronInitResponse, CronPushResponse) and the
\* worker is free again.
Return(p) ==
    /\ pc[p] \in {"init_done", "push_done"}
    /\ pc' = [pc EXCEPT ![p] = "idle"]
    /\ runNow' = [runNow EXCEPT ![p] = 0]
    /\ todo' = [todo EXCEPT ![p] = <<>>]
    /\ pending' = [pending EXCEPT ![p] = <<>>]
    /\ idx' = [idx EXCEPT ![p] = 0]
    /\ cnt' = [cnt EXCEPT ![p] = ZeroCnt]
    /\ tmp' = [tmp EXCEPT ![p] = NoTmp]
    /\ UNCHANGED <<now, users, workers, store, faults, hist, settings, call>>

Next ==
    \/ Tick
    \/ \E p \in Procs : StartInit(p)
    \/ \E p \in Procs : InitCheck(p)
    \/ \E p \in Procs : InitCheckRaise(p)
    \/ \E p \in Procs : InitCreate(p)
    \/ \E p \in Procs : InitCreateRaise(p)
    \/ \E p \in Procs : StartPush(p)
    \/ \E p \in Procs : PushFetch(p)
    \/ \E p \in Procs : PushFetchRaise(p)
    \/ \E p \in Procs : PushMark(p)
    \/ \E p \in Procs : PushMarkRaise(p)
    \/ \E p \in Procs : Return(p)

Spec == Init /\ [][Next]_vars

\* The steps of LiveSpec: the initializer, which the scheduler calls once an
\* hour and so once within MaxTime, without injected exceptions; the delivery
\* job with them.
LiveNext ==
    \/ Tick
    \/ \E p \in Procs : store = <<>> /\ StartInit(p)
    \/ \E p \in Procs : InitCheck(p)
    \/ \E p \in Procs : InitCreate(p)
    \/ \E p \in Procs : StartPush(p)
    \/ \E p \in Procs : PushFetch(p)
    \/ \E p \in Procs : PushFetchRaise(p)
    \/ \E p \in Procs : PushMark(p)
    \/ \E p \in Procs : PushMarkRaise(p)
    \/ \E p \in Procs : Return(p)

\* A step of a job that has started, as LiveSpec takes them.
JobStep(p) ==
    \/ InitCheck(p) \/ InitCreate(p)
    \/ PushFetch(p) \/ PushFetchRaise(p) \/ PushMark(p) \/ PushMarkRaise(p)
    \/ Return(p)

\* The scheduler keeps calling /internal/daily-quote-push, a job that has
\* started runs to completion, and the clock advances.
Fairness ==
    /\ WF_vars(Tick)
    /\ SF_vars(StartPush("w1"))
    /\ WF_vars(JobStep("w1"))

LiveSpec == LiveInit /\ [][LiveNext]_vars /\ Fairness

\* One worker that serves the scheduler's requests one at a time, for three
\* users: the behaviours of LiveSpec without the fairness.
SeqSpec == LiveInit /\ [][LiveNext]_vars

\* ------------------------------- send_pending_pushes, persist and push apart
\* The iteration of PushMark up to the push: await mark_quote_sent, then the
\* counters of the branches that end the iteration (no quote, no tokens).
\* With a quote and tokens the worker goes on to _send_quote_push.
PushPersist(p) ==
    /\ pc[p] = "push_mark"
    /\ LET record_id == pending[p][idx[p]]
           q == tmp[p].quote
           post == IF q = None THEN None ELSE Some(PostOf(q[1]))
           m == mark_quote_sent(store, record_id, q, post, now)
       IN  /\ store' = m.st
           /\ hist' = [hist EXCEPT ![record_id].marks = @ + (IF m.applied THEN 1 ELSE 0)]
           /\ IF q # None /\ tmp[p].tokens
              THEN /\ pc' = [pc EXCEPT ![p] = "push_send"]
                   /\ UNCHANGED <<cnt, tmp, idx>>
              ELSE /\ cnt' = IF q = None THEN [cnt EXCEPT ![p].no_quote = @ + 1]
                             ELSE [cnt EXCEPT ![p].no_tokens = @ + 1]
                   /\ tmp' = [tmp EXCEPT ![p] = NoTmp]
                   /\ NextItem(p, pending[p], "push_fetch", "push_done")
    /\ UNCHANGED <<now, users, workers, runNow, todo, pending, faults, settings, call>>

\* push_sent = _send_quote_push(tokens, quote_text, post_id, day_key): True
\* when a token was accepted, False when none was or send_push_notification
\* raised; sent_count += 1 on True, a log line on False.  call keeps the
\* arguments and the result of the latest push.
PushSend(p) ==
    /\ pc[p] = "push_send"
    /\ LET record_id == pending[p][idx[p]]
       IN  /\ \E push_sent \in BOOLEAN :
                /\ cnt' = IF push_sent THEN [cnt EXCEPT ![p].sent = @ + 1] ELSE cnt
                /\ call' = [fn |-> "_send_quote_push", record_id |-> record_id,
                            quote_text |-> tmp[p].quote[1], ret |-> push_sent]
           /\ hist' = [hist EXCEPT ![record_id].pushes = @ + 1]
    /\ tmp' = [tmp EXCEPT ![p] = NoTmp]
    /\ NextItem(p, pending[p], "push_fetch", "push_done")
    /\ UNCHANGED <<now, users, workers, store, runNow, todo, pending, faults, settings>>

\* One user and two workers whose requests overlap.
OrderInit ==
    /\ users = <<"u1">>
    /\ workers = {"w1", "w2"}
    /\ InitRest
    /\ settings = Configured
    /\ call = NoCall

OrderNext ==
    \/ Tick
    \/ \E p \in Procs : StartInit(p)
    \/ \E p \in Procs : InitCheck(p)
    \/ \E p \in Procs : InitCreate(p)
    \/ \E p \in Procs : StartPush(p)
    \/ \E p \in Procs : PushFetch(p)
    \/ \E p \in Procs : PushFetchRaise(p)
    \/ \E p \in Procs : PushPersist(p)
    \/ \E p \in Procs : PushMarkRaise(p)
    \/ \E p \in Procs : PushSend(p)
    \/ \E p \in Procs : Return(p)

\* The jobs with the database update and the push of one iteration as
\* separate steps.
OrderSpec == OrderInit /\ [][OrderNext]_vars

\* ------------------------------------- send_pending_pushes, failures noted
\* The iteration's exception handler marks the record as sent without a
\* quote.
PushFetchRaised_marks(p) ==
    /\ pc[p] = "push_fetch"
    /\ faults < MaxFaults
    /\ faults' = faults + 1
    /\ cnt' = [cnt EXCEPT ![p].processed = @ + 1, ![p].errors = @ + 1]
    /\ store' = mark_quote_sent(store, pending[p][idx[p]], None, None, now).st
    /\ call' = [fn |-> "send_pending_pushes", record_id |-> pending[p][idx[p]]]
    /\ NextItem(p, pending[p], "push_fetch", "push_done")
    /\ UNCHANGED <<now, users, workers, runNow, todo, pending, tmp, hist, settings>>

\* PushFetchRaise with the record of the failed iteration kept in call:
\* pick_random_quote or get_tokens_for_user raises, before mark_quote_sent.
PushFetchRaised(p) ==
    /\ pc[p] = "push_fetch"
    /\ faults < MaxFaults
    /\ faults' = faults + 1
    /\ cnt' = [cnt EXCEPT ![p].processed = @ + 1, ![p].errors = @ + 1]
    /\ call' = [fn |-> "send_pending_pushes", record_id |-> pending[p][idx[p]]]
    /\ NextItem(p, pending[p], "push_fetch", "push_done")
    /\ UNCHANGED <<now, users, workers, store, runNow, todo, pending, tmp, hist, settings>>

RetryNext ==
    \/ Tick
    \/ \E p \in Procs : store = <<>> /\ StartInit(p)
    \/ \E p \in Procs : InitCheck(p)
    \/ \E p \in Procs : InitCreate(p)
    \/ \E p \in Procs : StartPush(p)
    \/ \E p \in Procs : PushFetch(p)
    \/ \E p \in Procs : PushFetchRaised(p)
    \/ \E p \in Procs : PushMark(p)
    \/ \E p \in Procs : Return(p)

\* One worker whose delivery runs follow each other, for three users.
RetrySpec == LiveInit /\ [][RetryNext]_vars

\* ------------------------------------------- get_sunrise_info_for_user alone
AllUsers == {"u1", "u2", "u3", "u4"}
\* The reference instants tried: the days before, of and after day 0.
RefTimes == (0 - DayTicks)..(2 * DayTicks)

\* Everything but call, for the specifications of a single function: one
\* user, one idle worker, an empty collection.
Quiet ==
    /\ users = <<"u1">>
    /\ workers = {"w1"}
    /\ InitRest
    /\ settings = Configured

DayInit ==
    /\ Quiet
    /\ \E u \in AllUsers, reference_time \in RefTimes :
         call = [fn |-> "get_sunrise_info_for_user", user |-> u,
                 reference_time |-> reference_time, ret |-> None]

\* get_sunrise_info_for_user(timezone, latitude, longitude, reference_time)
ComputeDay ==
    /\ call.fn = "get_sunrise_info_for_user"
    /\ call.ret = None
    /\ call' = [call EXCEPT !.ret = Some(get_sunrise_info_for_user(call.user, call.reference_time))]
    /\ UNCHANGED <<now, users, workers, store, pc, runNow, todo, pending, idx, cnt, tmp, faults, hist, settings>>

DayNext == ComputeDay

DaySpec == DayInit /\ [][DayNext]_vars

\* The users of DaySpec and one whose location makes sun() raise on some
\* dates.
LocatedUsers == AllUsers \cup {"u5"}

TileInit ==
    /\ Quiet
    /\ \E u \in LocatedUsers, reference_time \in RefTimes :
         call = [fn |-> "get_sunrise_info_for_user", user |-> u,
                 reference_time |-> reference_time, ret |-> None]

TileNext == ComputeDay

\* get_sunrise_info_for_user for every location, the ones with the 6 AM
\* fallback included.
TileSpec == TileInit /\ [][TileNext]_vars

\* ------------------------------------------------ extract_quote_from_text
\* A text is a sequence of characters (strings of length one).
Ellipsis == <<".", ".", ".">>
SentenceEnd == {".", "!", "?"}
TrailingPunctuation == {".", ",", ";", ":"}
Whitespace == {" "}

MaxOf(S) == CHOOSE x \in S : \A y \in S : y <= x
MinOf(S) == CHOOSE x \in S : \A y \in S : x <= y

\* str.strip(): without leading and trailing whitespace.
Strip(text) ==
    LET solid == {i \in 1..Len(text) : text[i] \notin Whitespace}
    IN  IF solid = {} THEN <<>> ELSE SubSeq(text, MinOf(solid), MaxOf(solid))

\* re.sub(r'\s+', ' ', text): every run of whitespace becomes one space.
CollapseWhitespace(text) ==
    LET kept == SelectSeq([i \in 1..Len(text) |-> i],
                          LAMBDA i : text[i] \notin Whitespace \/ i = 1 \/ text[i - 1] \notin Whitespace)
    IN  [k \in 1..Len(kept) |-> IF text[kept[k]] \in Whitespace THEN " " ELSE text[kept[k]]]

\* str.rfind(ch) as Python counts: the index from 0 of the last ch, or -1.
RFind(text, ch) ==
    LET at == {i \in 1..Len(text) : text[i] = ch}
    IN  IF at = {} THEN -1 ELSE MaxOf(at) - 1

\* str.rstrip('.,;:')
RStrip(text) ==
    LET solid == {i \in 1..Len(text) : text[i] \notin TrailingPunctuation}
    IN  IF solid = {} THEN <<>> ELSE SubSeq(text, 1, MaxOf(solid))

\* re.split(r'(?<=[.!?])\s+', text): cut at every run of whitespace that
\* follows a sentence end.
RECURSIVE SplitAfterSentenceEnd(_)
SplitAfterSentenceEnd(text) ==
    LET cuts == {i \in 2..Len(text) : text[i] \in Whitespace /\ text[i - 1] \in SentenceEnd}
    IN  IF cuts = {} THEN <<text>>
        ELSE LET c == MinOf(cuts)
                 after == {i \in c..Len(text) : text[i] \notin Whitespace}
             IN  <<SubSeq(text, 1, c - 1)>>
                   \o SplitAfterSentenceEnd(IF after = {} THEN <<>>
                                            ELSE SubSeq(text, MinOf(after), Len(text)))

\* The abbreviations of the list ('Mr.', 'etc.', ...) cannot be spelled with
\* the characters of Chars, so protecting and restoring them changes nothing.
split_into_sentences(text) ==
    IF text = <<>> THEN <<>>
    ELSE LET parts == SplitAfterSentenceEnd(text)
             cleaned == [k \in 1..Len(parts) |-> Strip(parts[k])]
         IN  SelectSeq(cleaned, LAMBDA part : part # <<>>)

truncate_at_word_boundary(text, max_length) ==
    IF Len(text) <= max_length THEN Some(text)
    ELSE LET truncated == SubSeq(text, 1, max_length - 3)
             last_space == RFind(truncated, " ")
         IN  IF last_space > MIN_QUOTE_LENGTH
             THEN Some(RStrip(SubSeq(truncated, 1, last_space)) \o Ellipsis)
             ELSE None

\* The for loop over the sentences, from sentence i on with result so far.
RECURSIVE FitSentences(_, _, _)
FitSentences(sentences, i, result) ==
    IF i > Len(sentences)
    THEN (IF Len(result) >= MIN_QUOTE_LENGTH THEN Some(result) ELSE None)
    ELSE LET candidate == IF result # <<>>
                          THEN Strip(result \o <<" ">> \o sentences[i])
                          ELSE sentences[i]
         IN  IF Len(candidate) <= MAX_QUOTE_LENGTH
             THEN FitSentences(sentences, i + 1, candidate)
             ELSE IF result = <<>>
             THEN truncate_at_word_boundary(sentences[i], MAX_QUOTE_LENGTH)
             ELSE (IF Len(result) >= MIN_QUOTE_LENGTH THEN Some(result) ELSE None)

\* text is None or a text; the result is None or the quote.
extract_quote_from_text(text) ==
    IF text = None THEN None
    ELSE LET clean == CollapseWhitespace(Strip(text[1]))
         IN  IF Len(clean) < MIN_QUOTE_LENGTH THEN None
             ELSE IF Len(clean) <= MAX_QUOTE_LENGTH THEN Some(clean)
             ELSE LET sentences == split_into_sentences(clean)
                  IN  IF sentences = <<>>
                      THEN truncate_at_word_boundary(clean, MAX_QUOTE_LENGTH)
                      ELSE FitSentences(sentences, 1, <<>>)

\* The input texts: up to MaxSegments runs of one character each, a run
\* being a single character, a word just longer than MIN_QUOTE_LENGTH or a
\* word of MAX_QUOTE_LENGTH.
Chars == {"a", ",", ".", " "}
RunLengths == {1, MIN_QUOTE_LENGTH + 1, MAX_QUOTE_LENGTH}
Runs == Chars \X RunLengths
Run(ch, n) == [i \in 1..n |-> ch]
\* The text made of the runs from the k-th on.
RECURSIVE TextOf(_, _)
TextOf(runs, k) ==
    IF k > Len(runs) THEN <<>>
    ELSE Run(runs[k][1], runs[k][2]) \o TextOf(runs, k + 1)

ExtractInit ==
    /\ Quiet
    /\ \/ call = [fn |-> "extract_quote_from_text", text |-> None, ret |-> None]
       \/ \E k \in 0..MaxSegments : \E runs \in [1..k -> Runs] :
            call = [fn |-> "extract_quote_from_text", text |-> Some(TextOf(runs, 1)), ret |-> None]

\* quote_text = extract_quote_from_text(combined)
Extract ==
    /\ call.fn = "extract_quote_from_text"
    /\ call.ret = None
    /\ call' = [call EXCEPT !.ret = Some(extract_quote_from_text(call.text))]
    /\ UNCHANGED <<now, users, workers, store, pc, runNow, todo, pending, idx, cnt, tmp, faults, hist, settings>>

ExtractNext == Extract

ExtractSpec == ExtractInit /\ [][ExtractNext]_vars

\* ------------------------------------------------------ the cron triggers
\* Outcomes of the dependencies of a trigger: passed, or the status of the
\* error response.
Passed == 0
\* settings.CRON_SECRET: None by default, or the environment's string.
SecretSettings == {[CRON_SECRET |-> None], [CRON_SECRET |-> Some("")], Configured}
\* The X-Cron-Secret header of a request: missing, or its value.
Headers == {None, Some(""), Some("s1"), Some("bad")}
Triggers == {"daily_quote_init", "daily_quote_push"}

\* `not settings.CRON_SECRET`: None or the empty string.
Unset(cfg) == cfg.CRON_SECRET = None \/ cfg.CRON_SECRET = Some("")

\* The dependency without the look at the configuration.
verify_cron_secret_no_config_check(cfg, x_cron_secret) ==
    IF x_cron_secret = None THEN 400
    ELSE IF x_cron_secret # cfg.CRON_SECRET THEN 401
    ELSE Passed

\* Header(...) is required: without it the request fails validation, which
\* main.validation_exception_handler answers 400.  Then verify_cron_secret.
verify_cron_secret(cfg, x_cron_secret) ==
    IF x_cron_secret = None THEN 400
    ELSE IF Unset(cfg) THEN 500
    ELSE IF x_cron_secret # cfg.CRON_SECRET THEN 401
    ELSE Passed

\* The variables a job reads and writes.
jobVars == <<now, store, pc, runNow, todo, pending, idx, cnt, tmp, faults, hist>>

\* POST /internal/daily-quote-init: Depends(verify_cron_secret), then
\* service.initialize_daily_quotes() as in StartInit.
daily_quote_init(p, x_cron_secret) ==
    /\ p \in workers
    /\ pc[p] = "idle"
    /\ LET outcome == verify_cron_secret(settings, x_cron_secret)
       IN  IF outcome = Passed
           THEN /\ runNow' = [runNow EXCEPT ![p] = now]
                /\ todo' = [todo EXCEPT ![p] = users]
                /\ idx' = [idx EXCEPT ![p] = 1]
                /\ cnt' = [cnt EXCEPT ![p] = ZeroCnt]
                /\ tmp' = [tmp EXCEPT ![p] = NoTmp]
                /\ pc' = [pc EXCEPT ![p] = "init_check"]
                /\ call' = [fn |-> "daily_quote_init", x_cron_secret |-> x_cron_secret, status |-> 200]
                /\ UNCHANGED <<now, store, pending, faults, hist>>
           ELSE /\ call' = [fn |-> "daily_quote_init", x_cron_secret |-> x_cron_secret, status |-> outcome]
                /\ UNCHANGED jobVars
    /\ UNCHANGED <<users, workers, settings>>

\* POST /internal/daily-quote-push: Depends(verify_cron_secret), then
\* service.send_pending_pushes() as in StartPush.
daily_quote_push(p, x_cron_secret) ==
    /\ p \in workers
    /\ pc[p] = "idle"
    /\ LET outcome == verify_cron_secret(settings, x_cron_secret)
           pending_records == get_pending_pushes(store, now)
       IN  IF outcome = Passed
           THEN /\ runNow' = [runNow EXCEPT ![p] = now]
                /\ pending' = [pending EXCEPT ![p] = pending_records]
                /\ pc' = [pc EXCEPT ![p] = IF pending_records = <<>> THEN "push_done" ELSE "push_fetch"]
                /\ idx' = [idx EXCEPT ![p] = 1]
                /\ cnt' = [cnt EXCEPT ![p] = ZeroCnt]
                /\ tmp' = [tmp EXCEPT ![p] = NoTmp]
                /\ call' = [fn |-> "daily_quote_push", x_cron_secret |-> x_cron_secret, status |-> 200]
                /\ UNCHANGED <<now, store, todo, faults, hist>>
           ELSE /\ call' = [fn |-> "daily_quote_push", x_cron_secret |-> x_cron_secret, status |-> outcome]
                /\ UNCHANGED jobVars
    /\ UNCHANGED <<users, workers, settings>>

\* One user, one worker, and any configuration of the secret.
TrigInit ==
    /\ users = <<"u1">>
    /\ workers = {"w1"}
    /\ InitRest
    /\ settings \in SecretSettings
    /\ call = NoCall

\* The scheduler's requests with any header, and the steps of the jobs they
\* start.
TrigNext ==
    \/ Tick
    \/ \E p \in Procs, x_cron_secret \in Headers : daily_quote_init(p, x_cron_secret)
    \/ \E p \in Procs, x_cron_secret \in Headers : daily_quote_push(p, x_cron_secret)
    \/ \E p \in Procs : InitCheck(p)
    \/ \E p \in Procs : InitCreate(p)
    \/ \E p \in Procs : PushFetch(p)
    \/ \E p \in Procs : PushMark(p)
    \/ \E p \in Procs : Return(p)

TrigSpec == TrigInit /\ [][TrigNext]_vars

\* ------------------------------------- the triggers with a failing first read
\* POST /internal/daily-quote-init when db.users.find(...).to_list raises: the
\* read is outside the loop's try, the exception leaves
\* initialize_daily_quotes and main.global_exception_handler answers 500.
daily_quote_init_read_raises(p, x_cron_secret) ==
    /\ p \in workers
    /\ pc[p] = "idle"
    /\ verify_cron_secret(settings, x_cron_secret) = Passed
    /\ faults < MaxFaults
    /\ faults' = faults + 1
    /\ call' = [fn |-> "daily_quote_init", x_cron_secret |-> x_cron_secret, status |-> 500]
    /\ UNCHANGED <<now, users, workers, store, pc, runNow, todo, pending, idx, cnt, tmp, hist, settings>>

\* POST /internal/daily-quote-push when repository.get_pending_pushes raises:
\* the call is outside the loop's try, the exception leaves
\* send_pending_pushes and main.global_exception_handler answers 500.
daily_quote_push_read_raises(p, x_cron_secret) ==
    /\ p \in workers
    /\ pc[p] = "idle"
    /\ verify_cron_secret(settings, x_cron_secret) = Passed
    /\ faults < MaxFaults
    /\ faults' = faults + 1
    /\ call' = [fn |-> "daily_quote_push", x_cron_secret |-> x_cron_secret, status |-> 500]
    /\ UNCHANGED <<now, users, workers, store, pc, runNow, todo, pending, idx, cnt, tmp, hist, settings>>

\* The scheduler's requests and the jobs they start, with exceptions of the
\* store and the collaborators at every call a job makes.
FaultNext ==
    \/ Tick
    \/ \E p \in Procs, x_cron_secret \in Headers : daily_quote_init(p, x_cron_secret)
    \/ \E p \in Procs, x_cron_secret \in Headers : daily_quote_init_read_raises(p, x_cron_secret)
    \/ \E p \in Procs, x_cron_secret \in Headers : daily_quote_push(p, x_cron_secret)
    \/ \E p \in Procs, x_cron_secret \in Headers : daily_quote_push_read_raises(p, x_cron_secret)
    \/ \E p \in Procs : InitCheck(p)
    \/ \E p \in Procs : InitCheckRaise(p)
    \/ \E p \in Procs : InitCreate(p)
    \/ \E p \in Procs : InitCreateRaise(p)
    \/ \E p \in Procs : PushFetch(p)
    \/ \E p \in Procs : PushFetchRaise(p)
    \/ \E p \in Procs : PushMark(p)
    \/ \E p \in Procs : PushMarkRaise(p)
    \/ \E p \in Procs : Return(p)

FaultSpec == TrigInit /\ [][FaultNext]_vars

\* ------------------------------------------------- the user-facing queries
\* The authenticated users who ask: one the initializer knows and one it has
\* made no record for.
QueryUsers == {"u1", "u2"}
\* skip: Query(ge=0), the first page and one past it.
QuerySkips == {0, 1}
\* limit: Query(ge=1, le=MAX_HISTORY_LIMIT)
RouterLimits == {1, 2, MAX_HISTORY_LIMIT}

\* A status query that inserts the record it does not find.
GetToday_creates(user_id) ==
    /\ call' = [fn |-> "get_today_quote", user_id |-> user_id, status |-> 200,
                body |-> Some(get_today_quote(store, user_id, now))]
    /\ LET info == get_sunrise_info_for_user(user_id, now)
       IN  store' = create_daily_quote_record(store, user_id, info.day_key,
                        info.day_sunrise_utc, info.next_sunrise_utc,
                        now + FallbackMinTicks, now).st
    /\ hist' = IF Len(store') > Len(store) THEN Append(hist, [marks |-> 0, pushes |-> 0]) ELSE hist
    /\ UNCHANGED <<now, users, workers, pc, runNow, todo, pending, idx, cnt, tmp, faults, settings>>

\* GET /quotes/today: service.get_today_quote answers with a
\* TodayQuoteResponse.
GetToday(user_id) ==
    /\ call' = [fn |-> "get_today_quote", user_id |-> user_id, status |-> 200,
                body |-> Some(get_today_quote(store, user_id, now))]
    /\ UNCHANGED <<now, users, workers, store, pc, runNow, todo, pending, idx, cnt, tmp, faults, hist, settings>>

\* GET /quotes/today when get_sunrise_info_for_user (ZoneInfo of the user's
\* timezone) or repository.get_quote_for_user_day raises: neither the
\* service nor the router catches, main.global_exception_handler answers 500.
GetTodayRaises(user_id) ==
    /\ faults < MaxFaults
    /\ faults' = faults + 1
    /\ call' = [fn |-> "get_today_quote", user_id |-> user_id, status |-> 500,
                body |-> None]
    /\ UNCHANGED <<now, users, workers, store, pc, runNow, todo, pending, idx, cnt, tmp, hist, settings>>

\* GET /quotes/history?skip=&limit=: service.get_quote_history answers with
\* a QuoteHistoryResponse.
GetHistory(user_id, skip, limit) ==
    /\ call' = [fn |-> "get_quote_history", user_id |-> user_id, status |-> 200,
                body |-> Some(get_quote_history_response(store, user_id, skip, limit))]
    /\ UNCHANGED <<now, users, workers, store, pc, runNow, todo, pending, idx, cnt, tmp, faults, hist, settings>>

QueryInit ==
    /\ Quiet
    /\ call = NoCall

\* The two jobs of one worker and the queries of the users, in any order.
QueryNext ==
    \/ Tick
    \/ \E p \in Procs : StartInit(p)
    \/ \E p \in Procs : InitCheck(p)
    \/ \E p \in Procs : InitCheckRaise(p)
    \/ \E p \in Procs : InitCreate(p)
    \/ \E p \in Procs : InitCreateRaise(p)
    \/ \E p \in Procs : StartPush(p)
    \/ \E p \in Procs : PushFetch(p)
    \/ \E p \in Procs : PushFetchRaise(p)
    \/ \E p \in Procs : PushMark(p)
    \/ \E p \in Procs : PushMarkRaise(p)
    \/ \E p \in Procs : Return(p)
    \/ \E user_id \in QueryUsers : GetToday(user_id)
    \/ \E user_id \in QueryUsers : GetTodayRaises(user_id)
    \/ \E user_id \in QueryUsers, skip \in QuerySkips, limit \in RouterLimits : GetHistory(user_id, skip, limit)

QuerySpec == QueryInit /\ [][QueryNext]_vars

\* ------------------------------------------------ get_quote_history alone
\* What the jobs have made of a record: created and not yet sent, sent with
\* a quote, sent without one.
RecordStates == {"pending", "text", "no_text"}
\* The days the records of the collection are of.
HistDays == {0, 1, 2}

\* The record of user u and day d as create_daily_quote_record inserts it
\* one hour after the day's sunrise and, unless pending, as mark_quote_sent
\* leaves it at its scheduled time.
HistRecord(u, d, state) ==
    LET info == get_sunrise_info_for_user(u, SunriseUTC(u, d) + HourTicks)
        scheduled == info.day_sunrise_utc + 2 * HourTicks
        created == create_daily_quote_record(<<>>, u, info.day_key, info.day_sunrise_utc,
                       info.next_sunrise_utc, scheduled, info.day_sunrise_utc + HourTicks).st
    IN  IF state = "pending" THEN created[1]
        ELSE IF state = "text"
        THEN mark_quote_sent(created, 1, Some("qa"), Some(PostOf("qa")), scheduled).st[1]
        ELSE mark_quote_sent(created, 1, None, None, scheduled).st[1]

\* A collection of up to MaxRecords records, one at most for a user and a
\* day, in any order of insertion: records of u1 in every state and sent
\* records of u2.
HistInit ==
    /\ now = 3 * DayTicks
    /\ users = <<"u1", "u2">>
    /\ workers = {"w1"}
    /\ \E n \in 0..MaxRecords :
         \E us \in [1..n -> {"u1", "u2"}], ds \in [1..n -> HistDays], ss \in [1..n -> RecordStates] :
           /\ \A i \in 1..n : us[i] = "u2" => ss[i] = "text"
           /\ \A i \in 1..n, j \in 1..n : (us[i] = us[j] /\ ds[i] = ds[j]) => i = j
           /\ store = [i \in 1..n |-> HistRecord(us[i], ds[i], ss[i])]
           /\ hist = [i \in 1..n |-> [marks |-> IF ss[i] = "pending" THEN 0 ELSE 1, pushes |-> 0]]
    /\ pc = [p \in Procs |-> "idle"]
    /\ runNow = [p \in Procs |-> 0]
    /\ todo = [p \in Procs |-> <<>>]
    /\ pending = [p \in Procs |-> <<>>]
    /\ idx = [p \in Procs |-> 0]
    /\ cnt = [p \in Procs |-> ZeroCnt]
    /\ tmp = [p \in Procs |-> NoTmp]
    /\ faults = 0
    /\ settings = Configured
    /\ call = NoCall

\* The history requests of user u1.
HistNext ==
    \E skip \in 0..MaxRecords, limit \in RouterLimits : GetHistory("u1", skip, limit)

HistSpec == HistInit /\ [][HistNext]_vars

\* ------------------------------------------ _generate_random_push_time alone
\* A day of 24 hours in ticks.
RealDay == 24 * HourTicks
\* The lengths of a sunrise day: the next sunrise is up to MaxSkew ticks
\* earlier or later than 24 hours after this one.
WindowLengths == (RealDay - MaxSkew)..(RealDay + MaxSkew)

\* The arguments initialize_daily_quotes passes: the window of the user's
\* current day, counted from its sunrise, and an instant now_utc inside it.
SchedInit ==
    /\ Quiet
    /\ \E length \in WindowLengths, now_utc \in 0..(RealDay + MaxSkew) :
         /\ now_utc < length
         /\ call = [fn |-> "_generate_random_push_time", day_sunrise |-> 0,
                    next_sunrise |-> length, now_utc |-> now_utc, ret |-> None]

\* scheduled_time = _generate_random_push_time(day_sunrise, next_sunrise, now_utc)
Schedule ==
    /\ call.fn = "_generate_random_push_time"
    /\ call.ret = None
    /\ \E scheduled_time \in generate_random_push_time(call.day_sunrise, call.next_sunrise, call.now_utc) :
         call' = [call EXCEPT !.ret = Some(scheduled_time)]
    /\ UNCHANGED <<now, users, workers, store, pc, runNow, todo, pending, idx, cnt, tmp, faults, hist, settings>>

SchedNext == Schedule

SchedSpec == SchedInit /\ [][SchedNext]_vars

\* ================================================================ claims
\* The user and the sunrise day a worker's initializer iteration is about.
CurUser(p) == todo[p][idx[p]]
CurInfo(p) == get_sunrise_info_for_user(CurUser(p), runNow[p])
\* The record a worker's delivery iteration is about.
CurRecord(p) == pending[p][idx[p]]
\* Worker p takes a step.
Moves(p) == pc'[p] # pc[p] \/ idx'[p] # idx[p]
\* Worker p completes an iteration of its loop without an injected exception.
Iterates(p) == idx'[p] = idx[p] + 1 /\ faults' = faults
KeyCount(st, user_id, day_key) ==
    Cardinality({r \in RecIds(st) : st[r].user_id = user_id /\ st[r].day_key = day_key})

\* C1: in every reachable state the store holds at most one record per
\* (user_id, day_key), whatever the interleaving of initializer runs.
C1_UniquePerUserDay ==
    \A r1 \in RecIds(store), r2 \in RecIds(store) :
        (store[r1].user_id = store[r2].user_id /\ store[r1].day_key = store[r2].day_key)
            => r1 = r2

\* Two initializer runs both passed the existence check for the same user and
\* day, one has inserted and the other is about to.
C1_Witness ==
    \E p \in Procs, q \in Procs :
        /\ p # q
        /\ pc[p] = "init_create"
        /\ cnt[q].initialized > 0
        /\ HasKey(store, CurUser(p), CurInfo(p).day_key)

\* C2: an initializer iteration that finds the record of the user's day
\* counts the user as skipped and changes no record; one that finds none and
\* inserts counts the user as initialized, leaves exactly one record for that
\* (user, day) and changes no other record.
C2_SecondRunSkips ==
    [][\A p \in Procs :
        /\ (pc[p] = "init_check" /\ Moves(p) /\ faults' = faults
              /\ HasKey(store, CurUser(p), CurInfo(p).day_key))
            => /\ Iterates(p)
               /\ cnt'[p] = [cnt[p] EXCEPT !.skipped = @ + 1]
               /\ store' = store
        /\ (pc[p] = "init_create" /\ Iterates(p)
              /\ ~HasKey(store, CurUser(p), CurInfo(p).day_key))
            => /\ cnt'[p] = [cnt[p] EXCEPT !.initialized = @ + 1]
               /\ KeyCount(store', CurUser(p), CurInfo(p).day_key) = 1
               /\ SubSeq(store', 1, Len(store)) = store
    ]_vars

\* The single worker has run the initializer a second time: every user, all
\* with a record, was skipped.
C2_Witness ==
    /\ workers = {"w1"}
    /\ pc["w1"] = "init_done"
    /\ Len(store) = Len(users)
    /\ cnt["w1"].skipped = Len(users)
    /\ cnt["w1"].initialized = 0

\* C3 (as claimed): at most one mark_quote_sent on a record is applied, and
\* push_sent_at_utc of a sent record never changes.
C3_AtMostOneMarkApplies ==
    [][/\ \A r \in RecIds(store') : hist'[r].marks <= 1
       /\ \A r \in RecIds(store) :
            store[r].push_sent => store'[r].push_sent_at_utc = store[r].push_sent_at_utc
    ]_vars

\* C4 (as claimed): a push for a record is attempted by at most one delivery
\* invocation.
C4_AtMostOnePushAttempt ==
    \A r \in RecIds(store) : hist[r].pushes <= 1

\* C5 (as claimed): mark_quote_sent on a record that is already sent reports
\* that nothing was applied and leaves push_sent_at_utc, quote_text and the
\* source reference unchanged.
C5_MarkOnSentRecordDoesNotApply ==
    [][\A p \in Procs :
        (pc[p] = "push_mark" /\ Iterates(p) /\ store[CurRecord(p)].push_sent)
        => LET q == tmp[p].quote
               post == IF q = None THEN None ELSE Some(PostOf(q[1]))
           IN  /\ ~mark_quote_sent(store, CurRecord(p), q, post, now).applied
               /\ store'[CurRecord(p)].push_sent_at_utc
                    = store[CurRecord(p)].push_sent_at_utc
               /\ store'[CurRecord(p)].quote_text = store[CurRecord(p)].quote_text
               /\ store'[CurRecord(p)].source_post_id = store[CurRecord(p)].source_post_id
    ]_vars

\* C6: push_sent is monotonic: a record whose push_sent is true stays in the
\* store with push_sent true across every step.
C6_PushSentMonotonic ==
    [][\A r \in RecIds(store) :
        store[r].push_sent => (r \in RecIds(store') /\ store'[r].push_sent)]_vars

\* A sent record was marked again, and an initializer iteration of the same
\* user and day has failed on the insert.
C6_Witness ==
    \E r \in RecIds(store), p \in Procs :
        /\ store[r].push_sent
        /\ hist[r].marks >= 2
        /\ faults = 0
        /\ cnt[p].errors > 0

\* C7: a delivery run started at runNow selects only records scheduled at or
\* before runNow, and every sent record has push_sent_at_utc at or after its
\* scheduled_push_time_utc.
C7_NotBeforeScheduled ==
    /\ \A p \in Procs :
         pc[p] \in {"push_fetch", "push_mark", "push_done"}
         => \A i \in 1..Len(pending[p]) :
              store[pending[p][i]].scheduled_push_time_utc <= runNow[p]
    /\ \A r \in RecIds(store) :
         store[r].push_sent
         => store[r].push_sent_at_utc[1] >= store[r].scheduled_push_time_utc

\* A record was delivered and pushed while another record, scheduled later
\* than the run's start, was left pending by the same run.
C7_Witness ==
    \E p \in Procs, r \in RecIds(store), r2 \in RecIds(store) :
        /\ pc[p] = "push_done"
        /\ pending[p] = <<r>>
        /\ store[r].push_sent
        /\ hist[r].pushes > 0
        /\ ~store[r2].push_sent
        /\ store[r2].scheduled_push_time_utc > runNow[p]
        /\ store[r2].created_at_utc <= runNow[p]

\* C8: under LiveSpec every pending record whose scheduled_push_time_utc has
\* passed is eventually sent, also when more records are due than
\* get_pending_pushes returns in one run.
C8_EventuallyDelivered ==
    \A r \in 1..MaxRecords :
        (r \in RecIds(store) /\ ~store[r].push_sent
            /\ store[r].scheduled_push_time_utc <= now)
        ~> (r \in RecIds(store) /\ store[r].push_sent)

\* A run has selected PendingLimit records and left a due one out, which a
\* later run has delivered.
C8_Witness ==
    \E p \in Procs, r \in RecIds(store) :
        /\ pc[p] = "push_done"
        /\ pending[p] = <<r>>
        /\ r > PendingLimit
        /\ store[r].push_sent
        /\ \A r2 \in 1..PendingLimit :
             store[r2].push_sent /\ store[r2].scheduled_push_time_utc <= store[r].scheduled_push_time_utc

\* C9 (as claimed): every record's scheduled_push_time_utc lies in
\* [day_sunrise_utc, next_sunrise_utc).
C9_WindowContainment ==
    \A r \in RecIds(store) :
        /\ store[r].day_sunrise_utc <= store[r].scheduled_push_time_utc
        /\ store[r].scheduled_push_time_utc < store[r].next_sunrise_utc

\* C10 (as claimed): an initializer iteration whose insert fails on the
\* duplicate key counts the user as skipped, not as errored.
C10_DuplicateCountsAsSkipped ==
    [][\A p \in Procs :
        (pc[p] = "init_create" /\ Iterates(p)
           /\ HasKey(store, CurUser(p), CurInfo(p).day_key))
        => cnt'[p] = [cnt[p] EXCEPT !.skipped = @ + 1]
    ]_vars

\* The users collection as a set.
UserSet == {users[i] : i \in 1..Len(users)}
\* The skip and limit values of GET /quotes/history that are tried.
Skips == 0..MaxRecords
Limits == {1, 2, MAX_HISTORY_LIMIT, MAX_HISTORY_LIMIT + 1}
\* The records of a user and a day.
RecsOf(st, user_id, day_key) ==
    {r \in RecIds(st) : st[r].user_id = user_id /\ st[r].day_key = day_key}

\* C11: in every reachable state, for every user, skip and limit, every
\* record GET /quotes/history returns belongs to the user, has push_sent true
\* and a quote_text that is not None.
C11_HistoryOnlyDeliveredWithText ==
    \A u \in UserSet, skip \in Skips, limit \in Limits :
        LET quotes == get_quote_history_response(store, u, skip, limit).quotes
        IN  \A i \in 1..Len(quotes) :
              /\ quotes[i] \in RecIds(store)
              /\ store[quotes[i]].user_id = u
              /\ store[quotes[i]].push_sent
              /\ store[quotes[i]].quote_text # None

\* One user's delivered record with text is what their history returns,
\* another user has a delivered record without text and a third a pending
\* one, and their histories are empty.
C11_Witness ==
    \E r \in RecIds(store), r2 \in RecIds(store), r3 \in RecIds(store) :
        /\ store[r].push_sent /\ store[r].quote_text # None
        /\ store[r2].push_sent /\ store[r2].quote_text = None
        /\ ~store[r3].push_sent
        /\ get_quote_history_response(store, store[r].user_id, 0, 1).quotes = <<r>>
        /\ get_quote_history_response(store, store[r2].user_id, 0, 1).total = 0
        /\ get_quote_history_response(store, store[r3].user_id, 0, 1).quotes = <<>>

\* C12: GET /quotes/today answers from the record of the user's current
\* day: pending when there is none or its push_sent is false, delivered with
\* the record's text when push_sent is true and quote_text is set,
\* unavailable when push_sent is true and quote_text is None.
C12_TodayStatusMapping ==
    \A u \in UserSet :
        LET day_key == get_sunrise_info_for_user(u, now).day_key
            recs == RecsOf(store, u, day_key)
            resp == get_today_quote(store, u, now)
        IN  /\ recs = {} => resp.status = "pending" /\ ~resp.has_quote
            /\ \A r \in recs :
                 /\ ~store[r].push_sent => resp.status = "pending" /\ ~resp.has_quote
                 /\ (store[r].push_sent /\ store[r].quote_text # None)
                      => /\ resp.status = "delivered"
                         /\ resp.has_quote
                         /\ resp.quote # None
                         /\ resp.quote[1].text = store[r].quote_text[1]
                 /\ (store[r].push_sent /\ store[r].quote_text = None)
                      => resp.status = "unavailable" /\ ~resp.has_quote

\* At one instant one user's status is delivered, another's unavailable and
\* a third's pending.
C12_Witness ==
    \E u \in UserSet, v \in UserSet, w \in UserSet :
        /\ get_today_quote(store, u, now).status = "delivered"
        /\ get_today_quote(store, v, now).status = "unavailable"
        /\ get_today_quote(store, w, now).status = "pending"
        /\ RecsOf(store, w, get_sunrise_info_for_user(w, now).day_key) # {}

C14_ComputeDayRule ==
    (call.fn = "get_sunrise_info_for_user" /\ call.ret # None)
    => LET u == call.user
           ref == call.reference_time
           ret == call.ret[1]
           today == CHOOSE d \in -3..3 :
                      d * DayTicks <= ref + UtcOffset(u) /\ ref + UtcOffset(u) < (d + 1) * DayTicks
       IN  /\ ref >= SunriseUTC(u, today)
               => /\ ret.day_key = today
                  /\ ret.day_sunrise_utc = SunriseUTC(u, today)
                  /\ ret.next_sunrise_utc = SunriseUTC(u, today + 1)
           /\ ref < SunriseUTC(u, today)
               => /\ ret.day_key = today - 1
                  /\ ret.day_sunrise_utc = SunriseUTC(u, today - 1)
                  /\ ret.next_sunrise_utc = SunriseUTC(u, today)
           /\ \A d \in -3..3 :
                /\ ref = SunriseUTC(u, d) + 1 => ret.day_key = d
                /\ ref = SunriseUTC(u, d) - 1 => ret.day_key = d - 1
           /\ ret.day_sunrise_utc <= ref /\ ref < ret.next_sunrise_utc

\* The day was computed for the instant of a sunrise itself: it is the first
\* instant of that date's day.
C14_Witness ==
    /\ call.fn = "get_sunrise_info_for_user"
    /\ call.ret # None
    /\ call.reference_time = SunriseUTC(call.user, 1)
    /\ call.ret[1].day_key = 1
    /\ call.ret[1].day_sunrise_utc = call.reference_time

\* C15: every initializer iteration that raises nothing counts its user in
\* exactly one counter: skipped when the user had the record of the current
\* day when the run reached them, initialized when they had none and the
\* insert succeeded, and never errors; so a run's counters add up to the
\* users it has gone through, and errors stays 0 in a run without failures.
C15_InitCounters ==
    [][\A p \in Procs :
        /\ (pc[p] = "init_check" /\ Moves(p) /\ faults' = faults)
            => cnt'[p] = IF HasKey(store, CurUser(p), CurInfo(p).day_key)
                         THEN [cnt[p] EXCEPT !.skipped = @ + 1]
                         ELSE cnt[p]
        /\ (pc[p] = "init_create" /\ Iterates(p)
              /\ ~HasKey(store, CurUser(p), CurInfo(p).day_key))
            => cnt'[p] = [cnt[p] EXCEPT !.initialized = @ + 1]
        /\ pc'[p] \in {"init_check", "init_create", "init_done"}
            => cnt'[p].initialized + cnt'[p].skipped + cnt'[p].errors = idx'[p] - 1
        /\ (pc'[p] = "init_done" /\ cnt'[p].errors = 0)
            => cnt'[p].initialized + cnt'[p].skipped = Len(users)
    ]_vars

\* A run over three users, two of whom had their record, has returned
\* initialized 1, skipped 2, errors 0.
C15_Witness ==
    /\ Len(users) = 3
    /\ pc["w1"] = "init_done"
    /\ cnt["w1"].initialized = 1
    /\ cnt["w1"].skipped = 2
    /\ cnt["w1"].errors = 0


\* C16 (as claimed): the extractor returns None or a quote of at least
\* MIN_QUOTE_LENGTH and at most MAX_QUOTE_LENGTH characters, whatever the
\* text and whichever path produced it.
C16_ExtractionLengthBound ==
    (call.fn = "extract_quote_from_text" /\ call.ret # None)
    => \/ call.ret[1] = None
       \/ /\ Len(call.ret[1][1]) <= MAX_QUOTE_LENGTH
          /\ Len(call.ret[1][1]) >= MIN_QUOTE_LENGTH


\* A request to a trigger that presents a secret while none is configured or
\* another one is.
InvalidRequest ==
    /\ call' # call
    /\ call'.fn \in Triggers
    /\ call'.x_cron_secret # None
    /\ (Unset(settings) \/ call'.x_cron_secret # settings.CRON_SECRET)

\* C17 (as claimed): a trigger request whose secret is invalid, or that
\* arrives while no secret is configured, is answered 401 and starts no job.
C17_Rejected401 ==
    [][InvalidRequest => (call'.status = 401 /\ UNCHANGED jobVars)]_vars

\* C17 (amended): a trigger request that presents a secret is answered 500
\* when no secret is configured and 401 when the presented secret differs
\* from the configured one; in both cases no job starts and nothing changes
\* in the store.
C17_Rejected401Or500 ==
    [][InvalidRequest
        => /\ call'.status = IF Unset(settings) THEN 500 ELSE 401
           /\ UNCHANGED jobVars]_vars

\* With no secret configured a push trigger that presents the secret the
\* scheduler knows was answered 500 and every worker is idle.
C17_Witness ==
    /\ settings.CRON_SECRET = None
    /\ call.fn = "daily_quote_push"
    /\ call.x_cron_secret = Some("s1")
    /\ call.status = 500
    /\ \A p \in Procs : pc[p] = "idle"
    /\ store = <<>>


\* The bounds of the interval of a call of _generate_random_push_time as the
\* claims name them.
IntervalStart == Max(call.day_sunrise + HourTicks, call.now_utc + MinDelayTicks)
IntervalEnd == call.next_sunrise - HourTicks
Scheduled == call.fn = "_generate_random_push_time" /\ call.ret # None

\* C18 (as claimed): when max(windowStart + 1h, now + 5min) <= windowEnd - 1h
\* the scheduled time lies in [max(windowStart + 1h, now + 5min),
\* windowEnd - 1h], whatever the draw.
C18_WithinClosedInterval ==
    (Scheduled /\ IntervalStart <= IntervalEnd)
    => (IntervalStart <= call.ret[1] /\ call.ret[1] <= IntervalEnd)

\* C19 (as claimed): the scheduled time is now + 5..15 minutes exactly when
\* the interval is empty or inverted (its start after its end); when the
\* interval is not empty, its bounds being equal included, the scheduled time
\* is one of the interval.
C19_FallbackOnlyWhenEmpty ==
    Scheduled
    => IF IntervalStart > IntervalEnd
       THEN call.ret[1] - call.now_utc \in FallbackMinTicks..FallbackMaxTicks
       ELSE call.ret[1] \in IntervalStart..IntervalEnd

\* C20 (as claimed): the scheduled time is before the end of the day's
\* window and not earlier than the later of window start + 1h and now + 5
\* minutes, from the interval or from the fallback.
C20_BeforeWindowEnd ==
    Scheduled
    => /\ call.ret[1] < call.next_sunrise
       /\ call.ret[1] >= Max(call.day_sunrise + HourTicks, call.now_utc + MinDelayTicks)

\* The elements of a sequence.
Range(s) == {s[i] : i \in 1..Len(s)}
\* The records that are due at an instant: not sent, scheduled at or before it.
DueAt(st, before_time) ==
    {r \in RecIds(st) : ~st[r].push_sent /\ st[r].scheduled_push_time_utc <= before_time}
\* Worker p starts a delivery run in this step.
StartsPush(p) == pc[p] = "idle" /\ pc'[p] \in {"push_fetch", "push_done"}

\* C21: the records a delivery run gets from get_pending_pushes are distinct
\* records that are unsent and scheduled at or before the run's instant, at
\* most PendingLimit of them, and all of the due records when there are no
\* more than PendingLimit.
C21_FindDueSelection ==
    [][\A p \in Procs :
        StartsPush(p)
        => LET due == DueAt(store, now)
               got == Range(pending'[p])
           IN  /\ got \subseteq due
               /\ Len(pending'[p]) <= PendingLimit
               /\ Cardinality(got) = Len(pending'[p])
               /\ Cardinality(due) <= PendingLimit => got = due
    ]_vars

\* A run has just started with PendingLimit records while one more due
\* record was left out.
C21_Witness ==
    \E p \in Procs, r \in RecIds(store) :
        /\ pc[p] = "push_fetch"
        /\ idx[p] = 1
        /\ cnt[p].processed = 0
        /\ Len(pending[p]) = PendingLimit
        /\ r \in DueAt(store, runNow[p]) \ Range(pending[p])

\* Worker p calls _send_quote_push in this step.
Pushes(p) == pc[p] = "push_send" /\ pc'[p] # "push_send"

\* C22 (as claimed): when a push carrying a quote is sent, the record is
\* already marked sent with that same quote text; no push is attempted in a
\* step whose mark_quote_sent raised; and an iteration that got past
\* mark_quote_sent leaves the record marked sent, with or without a push.
C22_PersistedBeforePush ==
    [][\A p \in Procs :
        /\ Pushes(p)
            => /\ store[CurRecord(p)].push_sent
               /\ store[CurRecord(p)].quote_text = tmp[p].quote
        /\ (pc[p] = "push_mark" /\ Moves(p))
            => IF faults' = faults
               THEN store'[CurRecord(p)].push_sent
               ELSE hist' = hist /\ pc'[p] # "push_send"
    ]_vars

\* C23 (as claimed): when _send_quote_push fails for a record, the record
\* stays marked sent, the run's error_count goes up by one, and no push for
\* a record follows a failed push for it.
C23_PushFailureCountedNotRetried ==
    [][\A p \in Procs :
        /\ (Pushes(p) /\ cnt'[p].sent = cnt[p].sent)
            => /\ store'[CurRecord(p)].push_sent
               /\ cnt'[p].errors = cnt[p].errors + 1
        /\ Pushes(p)
            => ~(/\ call.fn = "_send_quote_push"
                 /\ call.record_id = CurRecord(p)
                 /\ ~call.ret)
    ]_vars

\* C24 (as claimed): the counters a delivery run returns partition the
\* processed records: processed_count is the sum of sent_count,
\* no_quote_count, no_tokens_count and error_count.
C24_CountersPartitionProcessed ==
    \A p \in Procs :
        pc[p] = "push_done"
        => cnt[p].processed
             = cnt[p].sent + cnt[p].no_quote + cnt[p].no_tokens + cnt[p].errors

\* Worker p's iteration ends with an exception in this step.
Raises(p) == Moves(p) /\ faults' = faults + 1

\* C25: in a delivery run, an iteration that raises (pick_random_quote,
\* get_tokens_for_user or mark_quote_sent) adds one to error_count, changes no
\* record and goes on with the next selected record, or to the end of the run
\* after the last; and a run reaches its return having processed every
\* record it selected.
C25_DeliveryIsolatesFailures ==
    [][\A p \in Procs :
        /\ (pc[p] \in {"push_fetch", "push_mark"} /\ Raises(p))
            => /\ cnt'[p].errors = cnt[p].errors + 1
               /\ store' = store
               /\ pending'[p] = pending[p]
               /\ idx'[p] = idx[p] + 1
               /\ pc'[p] = IF idx[p] < Len(pending[p]) THEN "push_fetch" ELSE "push_done"
        /\ (pc[p] # "push_done" /\ pc'[p] = "push_done")
            => cnt'[p].processed = Len(pending'[p])
    ]_vars

\* A run of two records is at its return: the first iteration raised and
\* left its record pending, the second delivered its record.
C25_Witness ==
    \E p \in Procs :
        /\ pc[p] = "push_done"
        /\ Len(pending[p]) = 2
        /\ cnt[p].errors = 1
        /\ cnt[p].processed = 2
        /\ ~store[pending[p][1]].push_sent
        /\ store[pending[p][2]].push_sent

\* C26: in an initializer run, an iteration that raises (the sunrise
\* computation, check_quote_exists, or create_daily_quote_record with
\* something other than a duplicate key) adds one to error_count, creates no
\* record and goes on with the next user, or to the end of the run after the
\* last; and a run reaches its return having counted every user.
C26_InitializerIsolatesFailures ==
    [][\A p \in Procs :
        /\ (pc[p] \in {"init_check", "init_create"} /\ Raises(p))
            => /\ cnt'[p].errors = cnt[p].errors + 1
               /\ store' = store
               /\ todo'[p] = todo[p]
               /\ idx'[p] = idx[p] + 1
               /\ pc'[p] = IF idx[p] < Len(todo[p]) THEN "init_check" ELSE "init_done"
        /\ (pc[p] # "init_done" /\ pc'[p] = "init_done")
            => cnt'[p].initialized + cnt'[p].skipped + cnt'[p].errors = Len(todo'[p])
    ]_vars

\* A run over three users is at its return: the iteration of the first user
\* raised and left that user without a record, the two users after it got
\* theirs.
C26_Witness ==
    \E p \in Procs :
        /\ pc[p] = "init_done"
        /\ Len(todo[p]) = 3
        /\ cnt[p].errors = 1
        /\ cnt[p].initialized = 2
        /\ faults = 1
        /\ \A r \in RecIds(store) : store[r].user_id # todo[p][1]
        /\ \E r \in RecIds(store) : store[r].user_id = todo[p][2]
        /\ \E r \in RecIds(store) : store[r].user_id = todo[p][3]

\* C27 (as claimed): a trigger request that passes verify_cron_secret is
\* answered 200 with the job's counters, whatever the store or a
\* collaborator raises during the job, its first read included.
C27_OnlyConfigurationAborts ==
    (call.fn \in Triggers /\ verify_cron_secret(settings, call.x_cron_secret) = Passed)
        => call.status = 200

\* C28 (as claimed): a status query is always answered with a status of
\* pending, delivered or unavailable and never with an error, whatever the
\* store holds and whatever the day computation or the store read raises.
C28_StatusQueryNeverErrors ==
    call.fn = "get_today_quote"
        => /\ call.status = 200
           /\ call.body # None
           /\ call.body[1].status \in {"pending", "delivered", "unavailable"}

\* The records GET /quotes/history is about: the user's sent records with a
\* quote text.
Delivered(st, user_id) ==
    {r \in RecIds(st) : st[r].user_id = user_id /\ st[r].push_sent /\ st[r].quote_text # None}

\* C29: the page a history request returns holds delivered records of the
\* user with text, the record at place i being the one with exactly
\* skip + i - 1 such records of a later day (day_key descending after the
\* first skip), its length is the smaller of limit and what is left after
\* skip, total counts all such records, and has_more is true exactly when
\* skip plus the length of the page is less than total.
C29_HistoryPage ==
    call.fn = "get_quote_history"
    => LET resp == call.body[1]
           all == Delivered(store, call.user_id)
           left == Max(0, Cardinality(all) - resp.skip)
       IN  /\ \A i \in 1..Len(resp.quotes) :
                /\ resp.quotes[i] \in all
                /\ Cardinality({r \in all : store[r].day_key > store[resp.quotes[i]].day_key})
                     = resp.skip + i - 1
           /\ Len(resp.quotes) = Min(resp.limit, left)
           /\ resp.total = Cardinality(all)
           /\ resp.has_more <=> (resp.skip + Len(resp.quotes) < resp.total)
           /\ resp.has_more
                <=> \E r \in all :
                      Cardinality({o \in all : store[o].day_key > store[r].day_key})
                        >= resp.skip + Len(resp.quotes)

\* The second page of one record out of three delivered days, inserted out
\* of order, with a page left.
C29_Witness ==
    /\ call.fn = "get_quote_history"
    /\ call.body[1].skip = 1
    /\ call.body[1].limit = 1
    /\ call.body[1].total = 3
    /\ call.body[1].has_more
    /\ Len(call.body[1].quotes) = 1
    /\ store[call.body[1].quotes[1]].day_key = 1
    /\ store[1].day_key = 1

\* The (user_id, day_key) keys of the collection.
Keys(st) == {<<st[r].user_id, st[r].day_key>> : r \in RecIds(st)}

\* C30: across every step of the initializer, the delivery job and the
\* queries the set of (user_id, day_key) keys only grows and no record
\* leaves the collection; a step that adds a record is an initializer's
\* create_daily_quote_record; and a status or history request, also for a
\* user without a record, leaves the collection as it was.
C30_RecordsOnlyGrow ==
    [][/\ Keys(store) \subseteq Keys(store')
       /\ Len(store') >= Len(store)
       /\ Len(store') > Len(store) => \E p \in Procs : pc[p] = "init_create" /\ Iterates(p)
       /\ call' # call => store' = store
    ]_vars

\* The user's two days have a record, the first is delivered, and the
\* latest request was a history query of the user without a record, who got
\* an empty page.
C30_Witness ==
    /\ Len(store) = 2
    /\ store[1].push_sent
    /\ call.fn = "get_quote_history"
    /\ call.user_id = "u2"
    /\ call.body[1].total = 0

\* C31: in every reachable state push_sent_at_utc of a record is set exactly
\* when its push_sent is true, and a record whose push_sent is false has
\* push_sent_at_utc, quote_text and source_post_id all None, from its creation
\* until the delivery job marks it.
C31_DeliveredAtIffDelivered ==
    \A r \in RecIds(store) :
        /\ store[r].push_sent <=> store[r].push_sent_at_utc # None
        /\ ~store[r].push_sent
            => /\ store[r].quote_text = None
               /\ store[r].source_post_id = None
               /\ hist[r].marks = 0

\* The record of the user's earlier day was marked with a quote and carries
\* the instant, the record of the later day is as it was created.
C31_Witness ==
    /\ Len(store) = 2
    /\ store[1].push_sent
    /\ store[1].push_sent_at_utc # None
    /\ store[1].quote_text # None
    /\ ~store[2].push_sent
    /\ store[2].push_sent_at_utc = None
    /\ store[2].created_at_utc >= store[1].push_sent_at_utc[1]

\* C32: for every reference instant and every location, the window
\* get_sunrise_info_for_user returns is not empty and holds the reference
\* instant: day_sunrise_utc < next_sunrise_utc and
\* day_sunrise_utc <= reference_time < next_sunrise_utc.
C32_WindowContainsReference ==
    (call.fn = "get_sunrise_info_for_user" /\ call.ret # None)
    => /\ call.ret[1].day_sunrise_utc < call.ret[1].next_sunrise_utc
       /\ call.ret[1].day_sunrise_utc <= call.reference_time
       /\ call.reference_time < call.ret[1].next_sunrise_utc

\* The day was computed for an instant before the 6 AM sunrise of a date on
\* which sun() raises: the window runs from the sunrise of the date before to
\* 6 AM.
C32_Witness ==
    /\ call.fn = "get_sunrise_info_for_user"
    /\ call.ret # None
    /\ SunFails(call.user, call.ret[1].day_key + 1)
    /\ call.ret[1].next_sunrise_utc = FallbackSunriseUTC(call.user, call.ret[1].day_key + 1)
    /\ call.reference_time = call.ret[1].next_sunrise_utc - 1

\* The day get_sunrise_info_for_user computes for user u at instant t.
DayAt(u, t) == get_sunrise_info_for_user(u, t)

\* C33 (as claimed): for one location the day windows tile time: the end of
\* the window computed for a day key is the start of every window computed
\* for the next day key, every instant inside a computed window is given
\* that window's day key, and the day key never decreases as the reference
\* instant advances.
C33_WindowsTile ==
    (call.fn = "get_sunrise_info_for_user" /\ call.ret # None)
    => \A t \in RefTimes :
         LET mine == call.ret[1]
             other == DayAt(call.user, t)
         IN  /\ other.day_key = mine.day_key + 1
                 => other.day_sunrise_utc = mine.next_sunrise_utc
             /\ (mine.day_sunrise_utc <= t /\ t < mine.next_sunrise_utc)
                 => other.day_key = mine.day_key
             /\ t >= call.reference_time => other.day_key >= mine.day_key

\* An iteration of a delivery run has raised before mark_quote_sent and its
\* record is kept in call.
Failed(r) == call.fn = "send_pending_pushes" /\ call.record_id = r

\* C34: an iteration that raises before mark_quote_sent (pick_random_quote
\* or get_tokens_for_user) leaves the collection as it was and the record
\* pending, no push is made for the record while it is pending, and the next
\* delivery run to start selects the record again.
C34_FailedRecordIsRetried ==
    [][\A p \in Procs :
        /\ (pc[p] = "push_fetch" /\ Raises(p))
            => /\ store' = store
               /\ hist' = hist
               /\ ~store'[CurRecord(p)].push_sent
               /\ idx'[p] = idx[p] + 1
        /\ \A r \in RecIds(store') :
             (Failed(r)' /\ ~store'[r].push_sent) => hist'[r].pushes = 0
        /\ \A r \in RecIds(store) :
             (StartsPush(p) /\ Failed(r) /\ ~store[r].push_sent)
                => r \in Range(pending'[p])
    ]_vars

\* A run that started after the failed one has the record of the failed
\* iteration in hand, still pending.
C34_Witness ==
    \E p \in Procs :
        /\ pc[p] = "push_mark"
        /\ Failed(CurRecord(p))
        /\ cnt[p].errors = 0
        /\ faults = 1
        /\ ~store[CurRecord(p)].push_sent
        /\ hist[CurRecord(p)].pushes = 0

\* C35: when delivery runs follow each other without overlapping, a run
\* selects no record that an earlier run has marked, so over any number of
\* runs mark_quote_sent is applied to a record at most once and at most one
\* push is attempted for it.
C35_SequentialRunsDeliverOnce ==
    [][/\ \A p \in Procs :
            StartsPush(p)
            => \A r \in Range(pending'[p]) :
                 /\ ~store[r].push_sent
                 /\ hist[r].marks = 0
                 /\ hist[r].pushes = 0
       /\ \A r \in RecIds(store') :
            /\ hist'[r].marks <= 1
            /\ hist'[r].pushes <= 1
    ]_vars

\* A run has just started with a due record in hand and without the record
\* an earlier run has marked and pushed, which is due as well.
C35_Witness ==
    \E p \in Procs, r \in RecIds(store) :
        /\ pc[p] = "push_fetch"
        /\ idx[p] = 1
        /\ cnt[p].processed = 0
        /\ store[r].push_sent
        /\ hist[r].marks = 1
        /\ hist[r].pushes = 1
        /\ store[r].scheduled_push_time_utc <= runNow[p]
        /\ r \notin Range(pending[p])

\* C36: every record lies in the day window that contains the instant of its
\* creation: day_sunrise_utc <= created_at_utc < next_sunrise_utc, also for a
\* user reached late in a run that read the clock once at its start.
C36_CreatedInsideWindow ==
    \A r \in RecIds(store) :
        /\ store[r].day_sunrise_utc <= store[r].created_at_utc
        /\ store[r].created_at_utc < store[r].next_sunrise_utc

====
